---- MODULE Spec2Model ----
(***************************************************************************)
(* Model of backend/api/src/cache.rs: the cache facade (CacheLayer), its   *)
(* two backends (LruCacheImpl over lru::LruCache, MokaLfuCache over        *)
(* moka::future::Cache) and the metrics collector (CacheMetrics).          *)
(*                                                                         *)
(* Time is a discrete clock `now`; an Instant is its value, a Duration a   *)
(* natural number of clock units.  Option<T> is a set with at most one     *)
(* element.  An f64 is the exact rational it stands for, kept as a         *)
(* normalised pair <<numerator, denominator>> (rounding is not modelled).  *)
(***************************************************************************)
EXTENDS Integers, Sequences, FiniteSets, TLC

\* ------------------------------------------------------------ bounds
MaxCap    == 2   \* max_capacity ranges over 1..MaxCap
MaxTime   == 1   \* the clock runs from 0 to MaxTime
MaxOps    == 3   \* number of facade calls in a behaviour of Spec
MaxLruOps == 4   \* number of calls in a behaviour of SpecLru
MaxMicros == 1   \* a measured latency is 0..MaxMicros microseconds
MaxNewOps == 2   \* number of calls in a behaviour of SpecNew
MaxConcOps == 3  \* number of calls the tasks make in a behaviour of SpecConc

\* ------------------------------------------------------------ inputs
Namespaces   == {"a", "a:"}
Keys         == {"b", ":b"}
Values       == {"v1", "v2"}
Policies     == {"Lru", "Lfu"}

\* the (namespace, key) pairs tried under Spec: three pairs, two of which share
\* a composite key; and under SpecLru: three pairs with three composite keys
FacadePairs == (Namespaces \X Keys) \ {<<"a:", ":b">>}
LruPairs    == (Namespaces \X Keys) \ {<<"a", ":b">>}

None    == {}
Some(x) == {x}
is_some(o) == o # {}
unwrap_or(o, d) == IF o = {} THEN d ELSE CHOOSE x \in o : TRUE

\* global_ttl of the configuration, and the ttl_override arguments tried
GlobalTtls   == {1}
TtlOverrides == {None, Some(0)}

VARIABLES
  layer,     \* the CacheLayer value: "unbuilt", "built", or "panicked" in new
  config,    \* CacheConfig: enabled, policy, global_ttl, max_capacity
  now,       \* the clock read by Instant::now()
  cache,     \* the backend's store: map (composite key -> entry), order (LRU first)
  metrics,   \* CacheMetrics: the six counters
  last,      \* the most recent facade call, with what it returned
  prev,      \* the operation of the call before it, when on the same (namespace, key)
  written,   \* the (namespace, key) pairs put so far through an enabled facade
  run,       \* composite keys of the latest streak of puts of distinct keys
  used,      \* per resident composite key: the number of the call that last put or hit it
  tally,     \* backend get calls completed, and how many of them returned a value
  budget,    \* the number of calls the behaviour may make
  task,      \* per concurrent task: where it is in its call, and the call's locals
  lock,      \* the tasks holding the RwLock of LruCacheImpl (write guards alive)
  snap       \* the store and hit/miss counters when the lock was last acquired

vars == <<layer, config, now, cache, metrics, last, prev, written, run, used, tally,
          budget, task, lock, snap>>

\* the variables of the concurrent tasks, and those of the one-call-at-a-time view
conc == <<task, lock, snap>>
seqv == <<layer, last, prev, written, run, used, tally, budget>>

\* ------------------------------------------------------------ CacheMetrics
RECURSIVE GCD(_, _)
GCD(a, b) == IF b = 0 THEN a ELSE GCD(b, a % b)

\* the f64 n/d, for n >= 0 and d > 0
F64(n, d) == IF n = 0 THEN <<0, 1>> ELSE <<n \div GCD(n, d), d \div GCD(n, d)>>
F64Div(x, y) == F64(x[1] * y[2], x[2] * y[1])
F64Mul(x, y) == F64(x[1] * y[1], x[2] * y[2])

MetricsDefault ==
  [hits |-> 0, misses |-> 0,
   cached_latency_sum_micros |-> 0, cached_count |-> 0,
   uncached_latency_sum_micros |-> 0, uncached_count |-> 0]

\* mutant of hit_rate: the hits are left out of the total
hit_rate_over_misses(m) ==
  LET total == m.misses
  IN  IF total = 0 THEN F64(0, 1)
      ELSE F64Mul(F64Div(F64(m.hits, 1), F64(total, 1)), F64(100, 1))

\* mutant of hit_rate: the miss counter in the numerator
hit_rate_of_misses(m) ==
  LET total == m.hits + m.misses
  IN  IF total = 0 THEN F64(0, 1)
      ELSE F64Mul(F64Div(F64(m.misses, 1), F64(total, 1)), F64(100, 1))

hit_rate(m) ==
  LET total == m.hits + m.misses
  IN  IF total = 0 THEN F64(0, 1)
      ELSE F64Mul(F64Div(F64(m.hits, 1), F64(total, 1)), F64(100, 1))

avg_cached_latency(m) ==
  IF m.cached_count = 0 THEN F64(0, 1)
  ELSE F64Div(F64(m.cached_latency_sum_micros, 1), F64(m.cached_count, 1))

avg_uncached_latency(m) ==
  IF m.uncached_count = 0 THEN F64(0, 1)
  ELSE F64Div(F64(m.uncached_latency_sum_micros, 1), F64(m.uncached_count, 1))

\* mutant of improvement_factor: the uncached check made first
improvement_factor_uncached_first(m) ==
  LET cached   == avg_cached_latency(m)
      uncached == avg_uncached_latency(m)
  IN  IF uncached = F64(0, 1) THEN F64(0, 1)
      ELSE IF cached = F64(0, 1) THEN F64(1, 1)
      ELSE F64Div(uncached, cached)

improvement_factor(m) ==
  LET cached   == avg_cached_latency(m)
      uncached == avg_uncached_latency(m)
  IN  IF cached = F64(0, 1) THEN F64(1, 1)
      ELSE IF uncached = F64(0, 1) THEN F64(0, 1)
      ELSE F64Div(uncached, cached)

\* ------------------------------------------------------------ composite key
cache_key(contract_id, key) == contract_id \o ":" \o key

\* ------------------------------------------------------------ lru::LruCache
Remove(seq, ck)  == SelectSeq(seq, LAMBDA x : x # ck)
Without(map, ck) == [k \in (DOMAIN map) \ {ck} |-> map[k]]
With(map, ck, e) == [k \in (DOMAIN map) \cup {ck} |-> IF k = ck THEN e ELSE map[k]]

EmptyCache == [map |-> <<>>, order |-> <<>>]

\* mutant of LruCache_get: a lookup that does not touch the order (peek)
LruCache_peek(c, ck) == c

\* LruCache::get: a resident key becomes most recently used
LruCache_get(c, ck) ==
  IF ck \in DOMAIN c.map
    THEN [c EXCEPT !.order = Append(Remove(@, ck), ck)]
    ELSE c

\* mutant of LruCache_put: a full store evicts even when the key is resident
LruCache_put_always_evict(c, ck, e, cap) ==
  LET c1 == IF Len(c.order) >= cap
              THEN [map |-> Without(c.map, Head(c.order)), order |-> Tail(c.order)]
              ELSE c
  IN  [map |-> With(c1.map, ck, e), order |-> Append(Remove(c1.order, ck), ck)]

\* mutant of LruCache_put: a resident key keeps its old entry
LruCache_put_keep_old(c, ck, e, cap) ==
  IF ck \in DOMAIN c.map
    THEN [map |-> c.map, order |-> Append(Remove(c.order, ck), ck)]
  ELSE IF Len(c.order) >= cap
    THEN [map   |-> With(Without(c.map, Head(c.order)), ck, e),
          order |-> Append(Tail(c.order), ck)]
  ELSE [map |-> With(c.map, ck, e), order |-> Append(c.order, ck)]

\* mutant of LruCache_put: evicts only above capacity (off by one)
LruCache_put_late_evict(c, ck, e, cap) ==
  IF ck \in DOMAIN c.map
    THEN [map |-> With(c.map, ck, e), order |-> Append(Remove(c.order, ck), ck)]
  ELSE IF Len(c.order) > cap
    THEN [map   |-> With(Without(c.map, Head(c.order)), ck, e),
          order |-> Append(Tail(c.order), ck)]
  ELSE [map |-> With(c.map, ck, e), order |-> Append(c.order, ck)]

\* LruCache::put: replace and promote a resident key; else evict the least
\* recently used entry when full, and insert as most recently used
LruCache_put(c, ck, e, cap) ==
  IF ck \in DOMAIN c.map
    THEN [map |-> With(c.map, ck, e), order |-> Append(Remove(c.order, ck), ck)]
  ELSE IF Len(c.order) >= cap
    THEN [map   |-> With(Without(c.map, Head(c.order)), ck, e),
          order |-> Append(Tail(c.order), ck)]
  ELSE [map |-> With(c.map, ck, e), order |-> Append(c.order, ck)]

\* LruCache::pop
LruCache_pop(c, ck) == [map |-> Without(c.map, ck), order |-> Remove(c.order, ck)]

\* ------------------------------------------------------------ LruCacheImpl
\* what a constructor gives: a panic, or a backend with its store and counters
Panicked == [panic |-> TRUE]
Built(c, m) == [panic |-> FALSE, cache |-> c, metrics |-> m]

\* `capacity as usize`: u64 to usize keeps the value (64-bit target)
as_usize(capacity) == capacity

\* NonZeroUsize::new
NonZeroUsize_new(n) == IF n = 0 THEN None ELSE Some(n)

\* mutant of LruCacheImpl_new: a zero capacity is accepted
LruCacheImpl_new_unchecked(capacity, ttl) == Built(EmptyCache, MetricsDefault)

\* LruCacheImpl::new: unwrap panics on a zero capacity
LruCacheImpl_new(capacity, ttl) ==
  IF is_some(NonZeroUsize_new(as_usize(capacity)))
    THEN Built(EmptyCache, MetricsDefault)
    ELSE Panicked

\* mutant of LruCacheImpl_get: a hit leaves the recency order as it was
LruCacheImpl_get_unpromoted(c, ck, t) ==
  IF ck \in DOMAIN c.map
    THEN IF c.map[ck].expiry > t
           THEN [cache |-> c, res |-> Some(c.map[ck].value), hits |-> 1, misses |-> 0]
           ELSE [cache |-> LruCache_pop(c, ck), res |-> None, hits |-> 0, misses |-> 1]
    ELSE [cache |-> c, res |-> None, hits |-> 0, misses |-> 1]

\* mutant of LruCacheImpl_get: an entry is still served at its expiry instant
LruCacheImpl_get_at_expiry(c, ck, t) ==
  IF ck \in DOMAIN c.map
    THEN LET c1 == LruCache_get(c, ck)
         IN  IF c1.map[ck].expiry >= t
               THEN [cache |-> c1, res |-> Some(c1.map[ck].value), hits |-> 1, misses |-> 0]
               ELSE [cache |-> LruCache_pop(c1, ck), res |-> None, hits |-> 0, misses |-> 1]
    ELSE [cache |-> c, res |-> None, hits |-> 0, misses |-> 1]

\* mutant of LruCacheImpl_get: the expired branch returns without recording a miss
LruCacheImpl_get_expired_unrecorded(c, ck, t) ==
  IF ck \in DOMAIN c.map
    THEN LET c1 == LruCache_get(c, ck)
         IN  IF c1.map[ck].expiry > t
               THEN [cache |-> c1, res |-> Some(c1.map[ck].value), hits |-> 1, misses |-> 0]
               ELSE [cache |-> LruCache_pop(c1, ck), res |-> None, hits |-> 0, misses |-> 0]
    ELSE [cache |-> c, res |-> None, hits |-> 0, misses |-> 1]

\* get: the store after the call, the value returned, the counters bumped
LruCacheImpl_get(c, ck, t) ==
  IF ck \in DOMAIN c.map
    THEN LET c1 == LruCache_get(c, ck)
         IN  IF c1.map[ck].expiry > t
               THEN [cache |-> c1, res |-> Some(c1.map[ck].value), hits |-> 1, misses |-> 0]
               ELSE [cache |-> LruCache_pop(c1, ck), res |-> None, hits |-> 0, misses |-> 1]
    ELSE [cache |-> c, res |-> None, hits |-> 0, misses |-> 1]

\* mutant of LruCacheImpl_put: entries found expired are dropped before the put
LruCacheImpl_put_sweep(c, ck, value, ttl_override, t, default_ttl, cap) ==
  LET ttl     == unwrap_or(ttl_override, default_ttl)
      expiry  == t + ttl
      live    == {k \in DOMAIN c.map : c.map[k].expiry > t}
      swept   == [map   |-> [k \in live |-> c.map[k]],
                  order |-> SelectSeq(c.order, LAMBDA k : k \in live)]
  IN  LruCache_put(swept, ck, [value |-> value, expiry |-> expiry], cap)

LruCacheImpl_put(c, ck, value, ttl_override, t, default_ttl, cap) ==
  LET ttl    == unwrap_or(ttl_override, default_ttl)
      expiry == t + ttl
  IN  LruCache_put(c, ck, [value |-> value, expiry |-> expiry], cap)

\* mutant of LruCacheImpl_invalidate: looks the key up without removing it
LruCacheImpl_invalidate_keep(c, ck) == LruCache_get(c, ck)

LruCacheImpl_invalidate(c, ck) == LruCache_pop(c, ck)

\* ------------------------------------------------------------ MokaLfuCache
MokaLfuCache_new(capacity, ttl) == Built(EmptyCache, MetricsDefault)

\* moka's Cache::get: a resident entry younger than time_to_live
MokaCache_get(c, ck, t) ==
  IF ck \in DOMAIN c.map /\ c.map[ck].expiry > t
    THEN Some(c.map[ck].value)
    ELSE None

\* moka's Cache::insert: the stores it can leave.  The entry is stamped with
\* the cache-wide time_to_live (line 110), whatever override put was given.  The
\* library's size-based eviction is approximate (TinyLFU admission): above
\* max_capacity it drops one entry, the candidate or a resident one, and which
\* one is not decided by this repository's code, so every choice is allowed.
MokaCache_insert(c, ck, value, t, ttl, cap) ==
  LET m1 == With(c.map, ck, [value |-> value, expiry |-> t + ttl])
  IN  IF Cardinality(DOMAIN m1) <= cap
        THEN {[map |-> m1, order |-> <<>>]}
        ELSE {[map |-> Without(m1, victim), order |-> <<>>] : victim \in DOMAIN m1}

MokaLfuCache_get(c, ck, t) ==
  LET result == MokaCache_get(c, ck, t)
  IN  IF is_some(result)
        THEN [cache |-> c, res |-> result, hits |-> 1, misses |-> 0]
        ELSE [cache |-> c, res |-> result, hits |-> 0, misses |-> 1]

\* mutant of MokaLfuCache_put: the override, when given, is the entry's TTL
MokaLfuCache_put_override(c, ck, value, ttl_override, t, ttl, cap) ==
  MokaCache_insert(c, ck, value, t, unwrap_or(ttl_override, ttl), cap)

MokaLfuCache_put(c, ck, value, ttl_override, t, ttl, cap) ==
  MokaCache_insert(c, ck, value, t, ttl, cap)

MokaLfuCache_invalidate(c, ck) == [map |-> Without(c.map, ck), order |-> <<>>]

\* ------------------------------------------------------------ dispatch
backend_get(c, ck, t) ==
  IF config.policy = "Lru" THEN LruCacheImpl_get(c, ck, t)
                           ELSE MokaLfuCache_get(c, ck, t)

backend_put(c, ck, value, ttl_override, t) ==
  IF config.policy = "Lru"
    THEN {LruCacheImpl_put(c, ck, value, ttl_override, t,
                           config.global_ttl, config.max_capacity)}
    ELSE MokaLfuCache_put(c, ck, value, ttl_override, t,
                          config.global_ttl, config.max_capacity)

backend_invalidate(c, ck) ==
  IF config.policy = "Lru" THEN LruCacheImpl_invalidate(c, ck)
                           ELSE MokaLfuCache_invalidate(c, ck)

\* ------------------------------------------------------------ call records
NoCall == [op |-> "none", ns |-> "", key |-> "", value |-> None,
           ttl |-> None, res |-> None, t |-> 0, n |-> 0, room |-> TRUE]

\* a facade call made now: its arguments, what it returned, and (for a put)
\* whether the store had room for the key when it was called
Call(op, ns, key, value, ttl, res, room) ==
  [op |-> op, ns |-> ns, key |-> key, value |-> value,
   ttl |-> ttl, res |-> res, t |-> now, n |-> last.n + 1, room |-> room]

\* what is kept of the call before a call on (ns, key)
Before(ns, key) == IF last.ns = ns /\ last.key = key THEN last.op ELSE "other"

\* `used` after call number n touched composite key ck (touched = {ck} or {})
Touch(map, touched, n) ==
  [k \in DOMAIN map |-> IF k \in touched THEN n ELSE used[k]]

\* ------------------------------------------------------------ tasks
Tasks == {"t1", "t2"}

\* a task that has made no call
IdleTask ==
  [pc |-> "idle", calls |-> 0, op |-> "none", ck |-> "", value |-> "", ttl |-> None,
   t |-> 0, res |-> None, hits |-> 0, rate |-> <<0, 1>>, at |-> 0, torn |-> FALSE]

NoSnap == [cache |-> EmptyCache, hits |-> 0, misses |-> 0]

\* no task has started, nobody holds the lock
NoTasks ==
  /\ task = [p \in Tasks |-> IdleTask]
  /\ lock = {}
  /\ snap = NoSnap

\* ------------------------------------------------------------ Init
\* the state CacheLayer::new(cfg) leaves
New(cfg) ==
  /\ layer = "built"
  /\ config = cfg
  /\ now = 0
  /\ cache = EmptyCache
  /\ metrics = MetricsDefault
  /\ last = NoCall
  /\ prev = "other"
  /\ written = {}
  /\ run = <<>>
  /\ used = <<>>
  /\ tally = [gets |-> 0, some |-> 0]
  /\ NoTasks

Init ==
  /\ \E cfg \in [enabled : BOOLEAN, policy : Policies,
                  global_ttl : GlobalTtls, max_capacity : 1..MaxCap] : New(cfg)
  /\ budget = MaxOps

\* CacheLayer::new: the backend its configuration selects
CacheLayer_new(cfg) ==
  IF cfg.policy = "Lfu"
    THEN MokaLfuCache_new(cfg.max_capacity, cfg.global_ttl)
    ELSE LruCacheImpl_new(cfg.max_capacity, cfg.global_ttl)

\* no store and no counters: what there is before and without a CacheLayer
Absent == [absent |-> TRUE]

\* before construction: any configuration, a zero max_capacity included
InitNew ==
  /\ layer = "unbuilt"
  /\ config \in [enabled : BOOLEAN, policy : Policies,
                  global_ttl : GlobalTtls, max_capacity : 0..MaxCap]
  /\ now = 0
  /\ cache = Absent
  /\ metrics = Absent
  /\ last = NoCall
  /\ prev = "other"
  /\ written = {}
  /\ run = <<>>
  /\ used = <<>>
  /\ tally = [gets |-> 0, some |-> 0]
  /\ budget = MaxNewOps
  /\ NoTasks

\* the exact-recency backend behind an enabled facade
InitLru ==
  /\ \E cfg \in [enabled : {TRUE}, policy : {"Lru"},
                  global_ttl : GlobalTtls, max_capacity : 1..MaxCap] : New(cfg)
  /\ budget = MaxLruOps

\* ------------------------------------------------------------ CacheLayer
\* mutant of put_disabled: put never returns early
put_never_disabled == FALSE

\* the early returns of get, put and invalidate
get_disabled        == ~config.enabled
put_disabled        == ~config.enabled
invalidate_disabled == ~config.enabled

Get(contract_id, key) ==
  /\ layer = "built"
  /\ last.n < budget
  /\ prev' = Before(contract_id, key)
  /\ UNCHANGED <<layer, config, now, written, run, budget>>
  /\ UNCHANGED conc
  /\ IF get_disabled
       THEN /\ last' = Call("get", contract_id, key, None, None, None, TRUE)
            /\ UNCHANGED <<cache, metrics, used, tally>>
       ELSE LET ck == cache_key(contract_id, key)
                r  == backend_get(cache, ck, now)
                m  == [metrics EXCEPT !.hits = @ + r.hits, !.misses = @ + r.misses]
            IN  /\ cache' = r.cache
                /\ last' = Call("get", contract_id, key, None, None, r.res, TRUE)
                /\ used' = Touch(r.cache.map, IF is_some(r.res) THEN {ck} ELSE {}, last.n + 1)
                /\ tally' = [gets |-> tally.gets + 1,
                             some |-> tally.some + (IF is_some(r.res) THEN 1 ELSE 0)]
                /\ IF is_some(r.res)
                     THEN \E elapsed \in 0..MaxMicros :
                            metrics' = [m EXCEPT
                              !.cached_latency_sum_micros = @ + elapsed,
                              !.cached_count = @ + 1]
                     ELSE metrics' = m

Put(contract_id, key, value, ttl_override) ==
  /\ layer = "built"
  /\ last.n < budget
  /\ prev' = Before(contract_id, key)
  /\ UNCHANGED <<layer, config, now, metrics, tally, budget>>
  /\ UNCHANGED conc
  /\ IF put_disabled
       THEN /\ last' = Call("put", contract_id, key, Some(value), ttl_override, None, TRUE)
            /\ UNCHANGED <<cache, written, run, used>>
       ELSE LET ck == cache_key(contract_id, key)
            IN  /\ cache' \in backend_put(cache, ck, value, ttl_override, now)
                /\ last' = Call("put", contract_id, key, Some(value), ttl_override, None,
                                \/ ck \in DOMAIN cache.map
                                \/ Cardinality(DOMAIN cache.map) < config.max_capacity)
                /\ written' = written \cup {<<contract_id, key>>}
                /\ run' = IF last.op = "put" /\ ck \notin {run[i] : i \in DOMAIN run}
                            THEN Append(run, ck)
                            ELSE <<ck>>
                /\ used' = Touch(cache'.map, {ck}, last.n + 1)

Invalidate(contract_id, key) ==
  /\ layer = "built"
  /\ last.n < budget
  /\ prev' = Before(contract_id, key)
  /\ last' = Call("invalidate", contract_id, key, None, None, None, TRUE)
  /\ UNCHANGED <<layer, config, now, metrics, written, tally, budget>>
  /\ UNCHANGED conc
  /\ IF invalidate_disabled
       THEN UNCHANGED <<cache, run, used>>
       ELSE /\ cache' = backend_invalidate(cache, cache_key(contract_id, key))
            /\ run' = <<>>
            /\ used' = Touch(cache'.map, {}, last.n + 1)

\* the Durations passed to record_uncached_latency, in half microseconds
Durations == 0..(2 * MaxMicros + 1)

\* Duration::as_micros of a Duration in half microseconds: whole microseconds
as_micros(duration) == duration \div 2

\* mutant of RecordUncachedLatency: a disabled facade records nothing
RecordUncachedLatency_if_enabled(duration) ==
  /\ layer = "built"
  /\ last.n < budget
  /\ prev' = "other"
  /\ last' = Call("record_uncached_latency", "", "", None, Some(duration), None, TRUE)
  /\ metrics' = IF config.enabled
                  THEN [metrics EXCEPT
                          !.uncached_latency_sum_micros = @ + as_micros(duration),
                          !.uncached_count = @ + 1]
                  ELSE metrics
  /\ UNCHANGED <<layer, config, now, cache, written, run, used, tally, budget>>
  /\ UNCHANGED conc

RecordUncachedLatency(duration) ==
  /\ layer = "built"
  /\ last.n < budget
  /\ prev' = "other"
  /\ last' = Call("record_uncached_latency", "", "", None, Some(duration), None, TRUE)
  /\ metrics' = [metrics EXCEPT
                   !.uncached_latency_sum_micros = @ + as_micros(duration),
                   !.uncached_count = @ + 1]
  /\ UNCHANGED <<layer, config, now, cache, written, run, used, tally, budget>>
  /\ UNCHANGED conc

\* the passage of time
Tick ==
  /\ now < MaxTime
  /\ now' = now + 1
  /\ UNCHANGED <<layer, config, cache, metrics, last, prev, written, run, used, tally, budget>>
  /\ UNCHANGED conc

Next ==
  \/ \E p \in FacadePairs : Get(p[1], p[2])
  \/ \E p \in FacadePairs, v \in Values, o \in TtlOverrides : Put(p[1], p[2], v, o)
  \/ \E p \in FacadePairs : Invalidate(p[1], p[2])
  \/ \E d \in Durations : RecordUncachedLatency(d)
  \/ Tick

Spec == Init /\ [][Next]_vars

\* get, put and invalidate on the exact-recency backend, one value
NextLru ==
  \/ \E p \in LruPairs : Get(p[1], p[2])
  \/ \E p \in LruPairs, o \in TtlOverrides : Put(p[1], p[2], "v1", o)
  \/ \E p \in LruPairs : Invalidate(p[1], p[2])
  \/ Tick

SpecLru == InitLru /\ [][NextLru]_vars

\* the call CacheLayer::new(config)
CacheLayerNew ==
  /\ layer = "unbuilt"
  /\ LET r == CacheLayer_new(config)
     IN  IF r.panic
           THEN layer' = "panicked" /\ UNCHANGED <<cache, metrics>>
           ELSE layer' = "built" /\ cache' = r.cache /\ metrics' = r.metrics
  /\ UNCHANGED <<config, now, last, prev, written, run, used, tally, budget>>
  /\ UNCHANGED conc

\* construction, and then the facade's methods on the value constructed
NextNew ==
  \/ CacheLayerNew
  \/ \E p \in LruPairs : Get(p[1], p[2])
  \/ \E p \in LruPairs, o \in TtlOverrides : Put(p[1], p[2], "v1", o)
  \/ \E p \in LruPairs : Invalidate(p[1], p[2])
  \/ \E d \in Durations : RecordUncachedLatency(d)
  \/ Tick

SpecNew == InitNew /\ [][NextNew]_vars

\* ------------------------------------------------------------ concurrent calls
\* Calls made by concurrent tasks on one enabled facade over the exact-recency
\* backend.  A call is a sequence of steps, one per access to shared state: the
\* lock, the store, a counter, the clock.  Steps of different tasks interleave.
ConcPairs == {<<"a", "b">>, <<"a:", "b">>}

InitConc ==
  /\ \E cfg \in [enabled : {TRUE}, policy : {"Lru"},
                  global_ttl : GlobalTtls, max_capacity : {1, MaxCap}] : New(cfg)
  /\ budget = MaxConcOps

\* task p starts call `op`
Called(p, op, ck, value, ttl) ==
  [task[p] EXCEPT !.op = op, !.ck = ck, !.value = value, !.ttl = ttl, !.t = now,
                  !.res = None, !.at = metrics.hits + metrics.misses, !.torn = FALSE]

\* the call returns `res`: its locals are gone
Returned(tk, res) ==
  [tk EXCEPT !.pc = "idle", !.calls = @ + 1, !.res = res,
             !.value = "", !.ttl = None, !.t = 0, !.hits = 0]

RECURSIVE CallsOf(_)
CallsOf(ps) ==
  IF ps = {} THEN 0
  ELSE LET p == CHOOSE x \in ps : TRUE
       IN  task[p].calls + (IF task[p].pc = "idle" THEN 0 ELSE 1) + CallsOf(ps \ {p})

\* an idle task may call while the calls started so far are fewer than the budget
CanCall(p) == layer = "built" /\ task[p].pc = "idle" /\ CallsOf(Tasks) < budget

\* mutant of RwLock_write_ready: a guard is granted while another is alive
RwLock_write_ready_shared(l) == TRUE

\* RwLock::write completes once no guard is alive
RwLock_write_ready(l) == l = {}

\* self.cache.write().await: p takes the lock
Locked(p) ==
  /\ RwLock_write_ready(lock)
  /\ lock' = lock \cup {p}
  /\ snap' = [cache |-> cache, hits |-> metrics.hits, misses |-> metrics.misses]

\* the write guard of p is dropped
Unlocked(p) == lock' = lock \ {p} /\ UNCHANGED snap

\* CacheLayer::get up to the backend call, and LruCacheImpl::get up to the lock
GetStart(p, contract_id, key) ==
  /\ CanCall(p)
  /\ LET c == Called(p, "get", cache_key(contract_id, key), "", None)
     IN  task' = [task EXCEPT ![p] =
                    IF get_disabled THEN Returned(c, None)
                                    ELSE [c EXCEPT !.pc = "get_lock"]]
  /\ UNCHANGED <<config, now, cache, metrics, lock, snap>>
  /\ UNCHANGED seqv

GetLock(p) ==
  /\ task[p].pc = "get_lock"
  /\ Locked(p)
  /\ task' = [task EXCEPT ![p].pc = "get_lookup"]
  /\ UNCHANGED <<config, now, cache, metrics>>
  /\ UNCHANGED seqv

\* cache.get(&cache_key), and the expiry test of the entry found
GetLookup(p) ==
  /\ task[p].pc = "get_lookup"
  /\ LET ck == task[p].ck
     IN  /\ cache' = LruCache_get(cache, ck)
         /\ task' = [task EXCEPT ![p].t = now, ![p].pc =
                       IF ck \notin DOMAIN cache.map THEN "get_miss"
                       ELSE IF cache.map[ck].expiry > now THEN "get_hit"
                       ELSE "get_pop"]
  /\ UNCHANGED <<config, now, metrics, lock, snap>>
  /\ UNCHANGED seqv

\* the hit is recorded and the value returned to CacheLayer::get
GetHit(p) ==
  /\ task[p].pc = "get_hit"
  /\ task[p].ck \in DOMAIN cache.map
  /\ metrics' = [metrics EXCEPT !.hits = @ + 1]
  /\ task' = [task EXCEPT ![p].res = Some(cache.map[task[p].ck].value),
                          ![p].pc = "get_sum"]
  /\ Unlocked(p)
  /\ UNCHANGED <<config, now, cache>>
  /\ UNCHANGED seqv

\* the expired entry is removed
GetPop(p) ==
  /\ task[p].pc = "get_pop"
  /\ cache' = LruCache_pop(cache, task[p].ck)
  /\ task' = [task EXCEPT ![p].pc = "get_miss"]
  /\ UNCHANGED <<config, now, metrics, lock, snap>>
  /\ UNCHANGED seqv

\* mutant of GetMiss: the facade records a latency sample for a miss as well
GetMiss_sampled(p) ==
  /\ task[p].pc = "get_miss"
  /\ metrics' = [metrics EXCEPT !.misses = @ + 1]
  /\ task' = [task EXCEPT ![p].pc = "get_sum"]
  /\ Unlocked(p)
  /\ UNCHANGED <<config, now, cache>>
  /\ UNCHANGED seqv

\* the miss is recorded and None returned, by the backend and by the facade
GetMiss(p) ==
  /\ task[p].pc = "get_miss"
  /\ metrics' = [metrics EXCEPT !.misses = @ + 1]
  /\ task' = [task EXCEPT ![p] = Returned(@, None)]
  /\ Unlocked(p)
  /\ UNCHANGED <<config, now, cache>>
  /\ UNCHANGED seqv

\* CacheLayer::get after a hit: the latency sum
GetSum(p) ==
  /\ task[p].pc = "get_sum"
  /\ \E elapsed \in {MaxMicros} :
       metrics' = [metrics EXCEPT !.cached_latency_sum_micros = @ + elapsed]
  /\ task' = [task EXCEPT ![p].pc = "get_count"]
  /\ UNCHANGED <<config, now, cache, lock, snap>>
  /\ UNCHANGED seqv

\* CacheLayer::get after a hit: the sample count, and the return
GetCount(p) ==
  /\ task[p].pc = "get_count"
  /\ metrics' = [metrics EXCEPT !.cached_count = @ + 1]
  /\ task' = [task EXCEPT ![p] = Returned(@, @.res)]
  /\ UNCHANGED <<config, now, cache, lock, snap>>
  /\ UNCHANGED seqv

\* CacheLayer::put, and LruCacheImpl::put up to the lock: the clock is read here
PutStart(p, contract_id, key, value, ttl_override) ==
  /\ CanCall(p)
  /\ LET c == Called(p, "put", cache_key(contract_id, key), value, ttl_override)
     IN  task' = [task EXCEPT ![p] =
                    IF put_disabled THEN Returned(c, None)
                                    ELSE [c EXCEPT !.pc = "put_lock"]]
  /\ UNCHANGED <<config, now, cache, metrics, lock, snap>>
  /\ UNCHANGED seqv

PutLock(p) ==
  /\ task[p].pc = "put_lock"
  /\ Locked(p)
  /\ task' = [task EXCEPT ![p].pc = "put_insert"]
  /\ UNCHANGED <<config, now, cache, metrics>>
  /\ UNCHANGED seqv

\* cache.put(cache_key, LruEntry { value, expiry }), and the return
PutInsert(p) ==
  /\ task[p].pc = "put_insert"
  /\ LET expiry == task[p].t + unwrap_or(task[p].ttl, config.global_ttl)
     IN  cache' = LruCache_put(cache, task[p].ck,
                               [value |-> task[p].value, expiry |-> expiry],
                               config.max_capacity)
  /\ task' = [task EXCEPT ![p] = Returned(@, None)]
  /\ Unlocked(p)
  /\ UNCHANGED <<config, now, metrics>>
  /\ UNCHANGED seqv

InvalidateStart(p, contract_id, key) ==
  /\ CanCall(p)
  /\ LET c == Called(p, "invalidate", cache_key(contract_id, key), "", None)
     IN  task' = [task EXCEPT ![p] =
                    IF invalidate_disabled THEN Returned(c, None)
                                           ELSE [c EXCEPT !.pc = "invalidate_lock"]]
  /\ UNCHANGED <<config, now, cache, metrics, lock, snap>>
  /\ UNCHANGED seqv

InvalidateLock(p) ==
  /\ task[p].pc = "invalidate_lock"
  /\ Locked(p)
  /\ task' = [task EXCEPT ![p].pc = "invalidate_pop"]
  /\ UNCHANGED <<config, now, cache, metrics>>
  /\ UNCHANGED seqv

\* cache.pop(&cache_key), and the return
InvalidatePop(p) ==
  /\ task[p].pc = "invalidate_pop"
  /\ cache' = LruCache_pop(cache, task[p].ck)
  /\ task' = [task EXCEPT ![p] = Returned(@, None)]
  /\ Unlocked(p)
  /\ UNCHANGED <<config, now, metrics>>
  /\ UNCHANGED seqv

\* hit_rate: the load of hits
HitRateLoadHits(p) ==
  /\ CanCall(p)
  /\ task' = [task EXCEPT ![p] =
                [Called(p, "hit_rate", "", "", None) EXCEPT
                   !.hits = metrics.hits, !.pc = "hit_rate_misses"]]
  /\ UNCHANGED <<config, now, cache, metrics, lock, snap>>
  /\ UNCHANGED seqv

\* hit_rate: the load of misses, and the rate of the two values loaded
HitRateLoadMisses(p) ==
  /\ task[p].pc = "hit_rate_misses"
  /\ task' = [task EXCEPT ![p] =
                [Returned(@, None) EXCEPT
                   !.rate = hit_rate([hits |-> task[p].hits, misses |-> metrics.misses]),
                   !.torn = (metrics.hits # task[p].hits)]]
  /\ UNCHANGED <<config, now, cache, metrics, lock, snap>>
  /\ UNCHANGED seqv

NextConc ==
  \/ \E p \in Tasks, q \in ConcPairs : GetStart(p, q[1], q[2])
  \/ \E p \in Tasks : GetLock(p)
  \/ \E p \in Tasks : GetLookup(p)
  \/ \E p \in Tasks : GetHit(p)
  \/ \E p \in Tasks : GetPop(p)
  \/ \E p \in Tasks : GetMiss(p)
  \/ \E p \in Tasks : GetSum(p)
  \/ \E p \in Tasks : GetCount(p)
  \/ \E p \in Tasks, q \in ConcPairs : PutStart(p, q[1], q[2], "v1", None)
  \/ \E p \in Tasks : PutLock(p)
  \/ \E p \in Tasks : PutInsert(p)
  \/ \E p \in Tasks, q \in ConcPairs : InvalidateStart(p, q[1], q[2])
  \/ \E p \in Tasks : InvalidateLock(p)
  \/ \E p \in Tasks : InvalidatePop(p)
  \/ \E p \in Tasks : HitRateLoadHits(p)
  \/ \E p \in Tasks : HitRateLoadMisses(p)
  \/ Tick

SpecConc == InitConc /\ [][NextConc]_vars

\* ------------------------------------------------------------ claims
\* a step that is facade call `op`
CallStep(op) == last'.n = last.n + 1 /\ last'.op = op

\* the composite key a call record addresses
KeyOf(call) == cache_key(call.ns, call.key)

Resident(c) == DOMAIN c.map

\* the TTL a put with override o is meant to give its entry
EffectiveTtl(o) ==
  IF config.policy = "Lru" THEN unwrap_or(o, config.global_ttl) ELSE config.global_ttl

\* a get that directly follows a put on the same (namespace, key), made
\* before the entry's TTL has elapsed
GetRightAfterPut ==
  /\ config.enabled
  /\ last.op = "put"
  /\ CallStep("get")
  /\ last'.ns = last.ns /\ last'.key = last.key
  /\ last'.t < last.t + EffectiveTtl(last.ttl)

MissEffect ==
  /\ last'.res = None
  /\ metrics'.misses = metrics.misses + 1
  /\ metrics'.hits = metrics.hits
  /\ metrics'.cached_latency_sum_micros = metrics.cached_latency_sum_micros
  /\ metrics'.cached_count = metrics.cached_count

\* C2 as stated: with the facade enabled, a get on a (namespace, key) that was
\* never written returns nothing, adds exactly 1 to misses, leaves hits and the
\* cached-latency sum and count unchanged, and leaves the stored entries unchanged.
C2_GetNeverWritten ==
  [][(config.enabled /\ CallStep("get") /\ <<last'.ns, last'.key>> \notin written)
       => (MissEffect /\ cache'.map = cache.map)]_vars

\* C2 for composite keys (not a claim of its own): the same holds of a get whose
\* composite key is the composite key of no pair written so far.
C2_GetNeverWrittenComposite ==
  [][(/\ config.enabled /\ CallStep("get")
      /\ KeyOf(last') \notin {cache_key(p[1], p[2]) : p \in written})
       => (MissEffect /\ cache' = cache)]_vars

\* C3: with the facade enabled, invalidate(ns, k) removes the entry of (ns, k) if
\* it is resident and changes nothing otherwise; every other entry keeps its value
\* and expiry; no metric counter changes during the invalidate; and the next
\* get(ns, k) with no put in between is a miss (a get on a key that is not
\* resident misses, and no call but put makes a key resident).
C3_Invalidate ==
  [][/\ (config.enabled /\ CallStep("invalidate"))
          => /\ cache'.map = Without(cache.map, KeyOf(last'))
             /\ cache'.order = Remove(cache.order, KeyOf(last'))
             /\ metrics' = metrics
     /\ (config.enabled /\ CallStep("get") /\ KeyOf(last') \notin Resident(cache))
          => (MissEffect /\ cache' = cache)
     /\ ~CallStep("put") => Resident(cache') \subseteq Resident(cache)
    ]_vars

\* C3 witness: put(ns, k, v), invalidate(ns, k), get(ns, k) were the three calls
\* made, and the get returned nothing and was counted as the only miss.
C3_Witness ==
  /\ config.enabled
  /\ last.n = 3
  /\ last.op = "get" /\ prev = "invalidate"
  /\ written = {<<last.ns, last.key>>}
  /\ now = 0
  /\ last.res = None
  /\ metrics.misses = 1 /\ metrics.hits = 0

\* C4: in the Lru backend a put at time T stores the value with expiry T + d,
\* d the ttl_override when given and global_ttl otherwise; a get on a resident key
\* strictly before its expiry returns the value and records a hit; a get at or
\* after the expiry returns nothing, records a miss and removes the entry.
C4_LruExpiry ==
  [][(config.enabled /\ config.policy = "Lru") =>
       /\ CallStep("put") =>
            /\ KeyOf(last') \in Resident(cache')
            /\ cache'.map[KeyOf(last')] =
                 [value  |-> unwrap_or(last'.value, ""),
                  expiry |-> now + unwrap_or(last'.ttl, config.global_ttl)]
       /\ (CallStep("get") /\ KeyOf(last') \in Resident(cache)) =>
            IF now < cache.map[KeyOf(last')].expiry
              THEN /\ last'.res = Some(cache.map[KeyOf(last')].value)
                   /\ metrics'.hits = metrics.hits + 1
                   /\ metrics'.misses = metrics.misses
                   /\ cache'.map = cache.map
              ELSE /\ MissEffect
                   /\ cache'.map = Without(cache.map, KeyOf(last'))
    ]_vars

\* C4 witness: under Lru, a put without override at time 0 and then a get on the
\* same key at time 1 = 0 + global_ttl, the expiry itself: the get returned
\* nothing and the entry is gone.
C4_Witness ==
  /\ config.enabled /\ config.policy = "Lru"
  /\ last.n = 2
  /\ last.op = "get" /\ prev = "put"
  /\ run = <<KeyOf(last)>>
  /\ last.t = config.global_ttl
  /\ last.res = None
  /\ metrics.misses = 1
  /\ Resident(cache) = {}

\* C5: with enabled = false, for either policy and after any calls of get, put
\* and invalidate, every get returns nothing, the store stays empty, and the hit,
\* miss and cached-latency counters stay at 0.
C5_Disabled ==
  ~config.enabled =>
    /\ cache = EmptyCache
    /\ metrics.hits = 0 /\ metrics.misses = 0
    /\ metrics.cached_latency_sum_micros = 0 /\ metrics.cached_count = 0
    /\ last.op = "get" => last.res = None
    /\ tally.gets = 0

\* C5 witness: disabled, a put and then a get on the same key that returned nothing.
C5_Witness ==
  /\ ~config.enabled
  /\ last.op = "get" /\ prev = "put"
  /\ last.res = None

Oldest == CHOOSE k \in DOMAIN used : \A j \in DOMAIN used : used[k] <= used[j]

\* the keys of a sequence from its second element on
Rest(seq) == {seq[i] : i \in 2..Len(seq)}

C8_HitOrMiss ==
  /\ metrics.hits + metrics.misses = tally.gets
  /\ metrics.hits = tally.some
  /\ metrics.misses = tally.gets - tally.some

\* C8 witness: a put and two backend gets on its key, one that hit and, after the
\* expiry, one that missed on the expired resident entry.
C8_Witness ==
  /\ tally.gets = 2 /\ tally.some = 1
  /\ metrics.hits = 1 /\ metrics.misses = 1
  /\ last.op = "get" /\ prev = "get"
  /\ last.res = None
  /\ now = MaxTime
  /\ Cardinality(written) = 1
  /\ Resident(cache) = {}

\* C9: hit_rate() is hits / (hits + misses) * 100 of the current counters, and 0
\* when hits + misses = 0; after calls that produced exactly one hit and one miss,
\* hits = 1, misses = 1 and hit_rate() is exactly 50.
C9_HitRate ==
  LET r     == hit_rate(metrics)
      total == metrics.hits + metrics.misses
  IN  /\ r[2] > 0
      /\ total = 0 => r = <<0, 1>>
      /\ total > 0 => r[1] * total = 100 * metrics.hits * r[2]
      /\ (tally.gets = 2 /\ tally.some = 1)
           => (metrics.hits = 1 /\ metrics.misses = 1 /\ r = <<50, 1>>)

\* C9 witness: two gets, one hit and one miss, and a hit rate of 50.
C9_Witness ==
  /\ tally.gets = 2 /\ tally.some = 1
  /\ metrics.hits = 1 /\ metrics.misses = 1
  /\ hit_rate(metrics) = <<50, 1>>

\* C10 as stated: improvement_factor() is 1.0 whenever there is no cached-latency
\* sample; 0.0 whenever there is no uncached-latency sample and at least one
\* cached-latency sample, whatever the cached durations; and otherwise
\* avg_uncached_latency / avg_cached_latency.
C10_ImprovementBySamples ==
  LET f == improvement_factor(metrics)
  IN  /\ metrics.cached_count = 0 => f = <<1, 1>>
      /\ (metrics.uncached_count = 0 /\ metrics.cached_count >= 1) => f = <<0, 1>>
      /\ (metrics.uncached_count >= 1 /\ metrics.cached_count >= 1)
           => f[1] * metrics.cached_latency_sum_micros * metrics.uncached_count
                = f[2] * metrics.uncached_latency_sum_micros * metrics.cached_count

\* C10 amended: improvement_factor() is 1.0 whenever the average cached latency is
\* 0 (no cached-latency sample, or samples that sum to 0 microseconds); 0.0
\* whenever the average cached latency is not 0 and the average uncached latency
\* is 0 (no uncached-latency sample, or samples that sum to 0); and otherwise
\* avg_uncached_latency / avg_cached_latency.
C10_ImprovementByAverages ==
  LET f  == improvement_factor(metrics)
      cs == metrics.cached_latency_sum_micros
      us == metrics.uncached_latency_sum_micros
      cached0   == metrics.cached_count = 0 \/ cs = 0
      uncached0 == metrics.uncached_count = 0 \/ us = 0
  IN  /\ f[2] > 0
      /\ cached0 => f = <<1, 1>>
      /\ (~cached0 /\ uncached0) => f = <<0, 1>>
      /\ (~cached0 /\ ~uncached0)
           => f[1] * cs * metrics.uncached_count = f[2] * us * metrics.cached_count

\* C10 witness: one cached-latency sample of 0 microseconds and no uncached
\* sample: the factor is 1.
C10_Witness ==
  /\ metrics.cached_count = 1 /\ metrics.cached_latency_sum_micros = 0
  /\ metrics.uncached_count = 0
  /\ improvement_factor(metrics) = <<1, 1>>

\* what get(ns, k) would return from store c now, for the pair p = <<ns, k>>
WouldGet(c, p) == backend_get(c, cache_key(p[1], p[2]), now).res

\* a put that evicts nothing (the key was resident or the store had room), or
\* an invalidate, through an enabled facade
WriteWithoutEviction ==
  /\ config.enabled
  /\ \/ CallStep("invalidate")
     \/ CallStep("put") /\ last'.room

\* C11 as stated: two distinct (namespace, key) pairs never collide on the
\* composite key, the separator being allowed in both components: a put or an
\* invalidate on (ns1, k1) that evicts nothing never changes what get(ns2, k2)
\* returns, for any other pair (ns2, k2).
C11_NoCollision ==
  [][WriteWithoutEviction =>
       \A q \in FacadePairs \ {<<last'.ns, last'.key>>} :
         WouldGet(cache', q) = WouldGet(cache, q)]_vars

\* C11 for composite keys (not a claim of its own): such a step never changes
\* what get returns for a pair whose composite key differs from the one written.
C11_NoInterferenceComposite ==
  [][WriteWithoutEviction =>
       \A q \in FacadePairs :
         cache_key(q[1], q[2]) # KeyOf(last') =>
           WouldGet(cache', q) = WouldGet(cache, q)]_vars

\* C12: in the Lfu backend put does not honour ttl_override: for every key, value
\* and override, the stores put(ns, k, v, Some(d)) can leave are the stores
\* put(ns, k, v, None) can leave, the entry put expires global_ttl after the put,
\* and so what any get returns afterwards does not depend on the override.
C12_LfuIgnoresOverride ==
  [][(config.enabled /\ config.policy = "Lfu" /\ CallStep("put")) =>
       LET ck == KeyOf(last')
           v  == unwrap_or(last'.value, "")
           plain == backend_put(cache, ck, v, None, now)
       IN  /\ cache' \in plain
           /\ \A o \in TtlOverrides : backend_put(cache, ck, v, o, now) = plain
           /\ ck \in Resident(cache') =>
                cache'.map[ck] = [value |-> v, expiry |-> now + config.global_ttl]
           /\ \A q \in FacadePairs :
                WouldGet(cache', q) \in {WouldGet(c, q) : c \in plain}
    ]_vars

\* C12 witness: under Lfu a put with override Some(0) was made; its entry is
\* resident, expires global_ttl after the put, and a get would return it now.
C12_Witness ==
  /\ config.enabled /\ config.policy = "Lfu"
  /\ last.op = "put" /\ last.ttl = Some(0)
  /\ KeyOf(last) \in Resident(cache)
  /\ cache.map[KeyOf(last)].expiry = last.t + config.global_ttl
  /\ now = last.t
  /\ WouldGet(cache, <<last.ns, last.key>>) = last.value

\* C13: CacheLayer::new with policy Lru and max_capacity = 0 fails (panics): no
\* CacheLayer value, store or counter comes out of it, and no get, put or
\* invalidate is ever made on one; with any other configuration of max_capacity
\* >= 1 it succeeds, with an empty store and every counter at 0; and every call
\* of a facade method is made on a constructed value.
C13_Construction ==
  [][/\ (layer = "unbuilt" /\ layer' # "unbuilt") =>
          /\ (config.policy = "Lru" /\ config.max_capacity = 0) =>
               (layer' = "panicked" /\ cache' = Absent /\ metrics' = Absent)
          /\ config.max_capacity >= 1 =>
               (layer' = "built" /\ cache' = EmptyCache /\ metrics' = MetricsDefault)
     /\ last'.n # last.n => layer = "built"
     /\ (config.policy = "Lru" /\ config.max_capacity = 0) => layer' # "built"
     /\ layer = "panicked" => layer' = "panicked"
    ]_vars

\* C13 witness: new was called with Lru and max_capacity 0, and panicked; no
\* call was made.
C13_Witness ==
  /\ layer = "panicked"
  /\ config.policy = "Lru" /\ config.max_capacity = 0
  /\ last = NoCall
  /\ cache = Absent

\* the tasks inside a facade get
GetsInFlight ==
  {p \in Tasks : task[p].pc \in {"get_lock", "get_lookup", "get_hit", "get_pop",
                                 "get_miss", "get_sum", "get_count"}}

\* C14: a facade get records a cached-latency sample exactly when it returns a
\* value (the sample count grows by 1 in the step that returns a value, and in no
\* other step of any call); every get going through the facade, cached_count <=
\* hits in every reachable state, and cached_count = hits whenever no get is in
\* flight.
C14_SamplePerHit ==
  /\ [](metrics.cached_count <= metrics.hits)
  /\ [](GetsInFlight = {} => metrics.cached_count = metrics.hits)
  /\ [][\A p \in Tasks :
          LET returns == task[p].op = "get" /\ task[p].pc # "idle" /\ task'[p].pc = "idle"
          IN  /\ (returns /\ is_some(task'[p].res)) =>
                   metrics'.cached_count = metrics.cached_count + 1
              /\ (returns /\ ~is_some(task'[p].res)) =>
                   metrics'.cached_count = metrics.cached_count
       ]_vars
  /\ [][metrics'.cached_count # metrics.cached_count =>
          \E p \in Tasks : /\ task[p].op = "get" /\ task[p].pc # "idle"
                           /\ task'[p].pc = "idle" /\ is_some(task'[p].res)]_vars

\* C14 between calls, for both policies (not a claim of its own): when calls do
\* not overlap, cached_count = hits in every state.
C14_BetweenCalls == metrics.cached_count = metrics.hits

\* C14 witness: one get has recorded its hit and not yet its sample (the count
\* is behind), while another get has returned a value and recorded its sample.
C14_Witness ==
  /\ \E p \in Tasks : task[p].pc = "get_sum"
  /\ \E p \in Tasks : task[p].pc = "idle" /\ task[p].op = "get" /\ is_some(task[p].res)
  /\ metrics.hits = 2 /\ metrics.cached_count = 1

\* entry k of store c has reached its expiry
Expired(c, k) == c.map[k].expiry <= now

\* C15: expiration in the Lru backend is lazy.  The passage of time alone changes
\* nothing in the store; an expired entry leaves the store only in a get or an
\* invalidate on its own key, or in a put of a non-resident key into a full
\* store of which it is the least recently used entry; and expired entries count
\* toward capacity: a put of a non-resident key into a full store evicts the least
\* recently used entry, expired or not, whatever expired entries are resident.
C15_LazyExpiration ==
  [][(config.enabled /\ config.policy = "Lru") =>
       /\ now' # now => cache' = cache
       /\ \A k \in Resident(cache) :
            (Expired(cache, k) /\ k \notin Resident(cache')) =>
              \/ (CallStep("get") \/ CallStep("invalidate")) /\ KeyOf(last') = k
              \/ /\ CallStep("put")
                 /\ KeyOf(last') \notin Resident(cache)
                 /\ Cardinality(Resident(cache)) = config.max_capacity
                 /\ k = Head(cache.order)
       /\ (/\ CallStep("put")
           /\ KeyOf(last') \notin Resident(cache)
           /\ Cardinality(Resident(cache)) = config.max_capacity)
            => Resident(cache') =
                 (Resident(cache) \ {Head(cache.order)}) \cup {KeyOf(last')}
    ]_vars

\* C15 witness: max_capacity 2, all at time 0: put(k1), a get that hit k1 (so k1
\* has not expired), put(k2) with a TTL of 0 (expired at once), put(k3).  The last
\* put evicted k1, not expired, and the expired k2 is still resident.
C15_Witness ==
  /\ config.policy = "Lru" /\ config.max_capacity = 2
  /\ now = 0
  /\ last.op = "put" /\ last.n = 4
  /\ Len(run) = 2
  /\ tally.gets = 1 /\ tally.some = 1
  /\ Cardinality(written) = 3
  /\ Resident(cache) = {run[1], run[2]}
  /\ Expired(cache, run[1])
  /\ ~Expired(cache, run[2])

\* a put of a key that is not resident into a full store
PutIntoFull ==
  /\ CallStep("put")
  /\ KeyOf(last') \notin Resident(cache)
  /\ Cardinality(Resident(cache)) = config.max_capacity

\* C16: in the Lru backend a get that hits k makes k the most recently used
\* entry; with max_capacity >= 2 and the store full, a put of a new key that
\* comes next after a hit on k evicts exactly one entry, other than k; and
\* whenever a put evicts k, every other resident entry was put or hit after the
\* last put or hit of k (those resident at the time of a hit on k have by then
\* left the store, or been put or hit again).
C16_HitPromotes ==
  [][(config.enabled /\ config.policy = "Lru") =>
       /\ (CallStep("get") /\ is_some(last'.res)) =>
            /\ cache'.order = Append(Remove(cache.order, KeyOf(last')), KeyOf(last'))
            /\ cache'.map = cache.map
       /\ (/\ last.op = "get" /\ is_some(last.res)
           /\ config.max_capacity >= 2
           /\ PutIntoFull)
            => /\ KeyOf(last) \in Resident(cache')
               /\ \E j \in Resident(cache) \ {KeyOf(last)} :
                    Resident(cache') = (Resident(cache) \ {j}) \cup {KeyOf(last')}
       /\ PutIntoFull =>
            \A k \in Resident(cache) \ Resident(cache') :
              \A j \in Resident(cache) \ {k} : used[j] > used[k]
    ]_vars

\* C16 witness: max_capacity 2; two keys were put, the third call was a get that
\* hit one of them, and the fourth a put of a third key: the key that was hit is
\* still resident, the other one was evicted.
C16_Witness ==
  /\ config.policy = "Lru" /\ config.max_capacity = 2
  /\ last.op = "put" /\ last.n = 4
  /\ Len(run) = 1
  /\ tally.gets = 1 /\ tally.some = 1
  /\ Cardinality(written) = 3
  /\ Cardinality(Resident(cache)) = 2
  /\ \E k \in Resident(cache) : k # KeyOf(last) /\ used[k] = 3 /\ cache.order[1] = k

\* what a put on a resident key does to the store
ReplaceEffect ==
  LET ck == KeyOf(last')
  IN  /\ cache'.map = With(cache.map, ck,
                           [value  |-> unwrap_or(last'.value, ""),
                            expiry |-> now + unwrap_or(last'.ttl, config.global_ttl)])
      /\ Resident(cache') = Resident(cache)
      /\ Cardinality(Resident(cache')) = Cardinality(Resident(cache))

\* a get made at the instant of the put before it, on the same (namespace, key),
\* that put having replaced an entry put by the call before it
GetRightAfterReplace ==
  /\ last.op = "put" /\ prev = "put"
  /\ CallStep("get")
  /\ last'.ns = last.ns /\ last'.key = last.key
  /\ last'.t = last.t

GetHitsNewValue ==
  /\ last'.res = last.value
  /\ metrics'.hits = metrics.hits + 1
  /\ metrics'.misses = metrics.misses

\* C17 as stated: in the Lru backend a put on a key that is already resident,
\* expired or not, replaces its value and its expiry with now + TTL, evicts no
\* entry and leaves the number of resident entries unchanged, even at
\* max_capacity; a get on that key right after is a hit returning the new value.
C17_ReplaceThenHit ==
  [][(config.enabled /\ config.policy = "Lru") =>
       /\ (CallStep("put") /\ KeyOf(last') \in Resident(cache)) => ReplaceEffect
       /\ GetRightAfterReplace => GetHitsNewValue
    ]_vars

\* C17 amended: the same, the get right after being a hit returning the new value
\* when the TTL of the put is not zero; with a TTL of zero the entry has expired
\* when it is stored, and the get is a miss that removes it.
C17_ReplaceThenHitUnlessZeroTtl ==
  [][(config.enabled /\ config.policy = "Lru") =>
       /\ (CallStep("put") /\ KeyOf(last') \in Resident(cache)) => ReplaceEffect
       /\ GetRightAfterReplace =>
            IF unwrap_or(last.ttl, config.global_ttl) > 0
              THEN GetHitsNewValue
              ELSE MissEffect /\ KeyOf(last') \notin Resident(cache')
    ]_vars

\* C17 witness: Lru with max_capacity 1: put(k, v1), put(k, v2) and get(k), the
\* store full all along; the get returned v2, and the entry expires global_ttl
\* after the second put.
C17_Witness ==
  /\ config.enabled /\ config.policy = "Lru" /\ config.max_capacity = 1
  /\ last.op = "get" /\ prev = "put" /\ last.n = 3
  /\ written = {<<last.ns, last.key>>}
  /\ last.res = Some("v2")
  /\ metrics.hits = 1
  /\ cache.map[KeyOf(last)] = [value |-> "v2", expiry |-> last.t + config.global_ttl]

\* the tasks between taking the lock and dropping it
InCritical ==
  {p \in Tasks : task[p].pc \in {"get_lookup", "get_hit", "get_pop", "get_miss",
                                 "put_insert", "invalidate_pop"}}

\* the step in which task p drops the lock leaves the store, the hit and miss
\* counters and the value returned as the whole call, run on its own from the
\* state in which p took the lock, would leave them (the call taking with it the
\* clock reading it made)
AsIfAlone(p) ==
  LET tk == task[p]
  IN  CASE tk.op = "get" ->
             LET r == LruCacheImpl_get(snap.cache, tk.ck, tk.t)
             IN  /\ cache' = r.cache
                 /\ metrics'.hits = snap.hits + r.hits
                 /\ metrics'.misses = snap.misses + r.misses
                 /\ task'[p].res = r.res
        [] tk.op = "put" ->
             /\ cache' = LruCacheImpl_put(snap.cache, tk.ck, tk.value, tk.ttl, tk.t,
                                          config.global_ttl, config.max_capacity)
             /\ metrics'.hits = snap.hits /\ metrics'.misses = snap.misses
        [] tk.op = "invalidate" ->
             /\ cache' = LruCacheImpl_invalidate(snap.cache, tk.ck)
             /\ metrics'.hits = snap.hits /\ metrics'.misses = snap.misses
        [] OTHER -> FALSE

\* C18: in the Lru backend concurrent get, put and invalidate calls are
\* serialized by one exclusive lock, held from the lookup through the record of
\* the hit or miss: at most one task is between taking and dropping the lock; the
\* store and the hit and miss counters change only in steps of the task that
\* holds it; and each call's effect on them, and the value it returns, are those
\* of the call run on its own at the moment it took the lock, so that every
\* interleaving gives what the calls give one after another in the order in which
\* they took the lock.
C18_Serialized ==
  /\ [](Cardinality(InCritical) <= 1 /\ lock = InCritical)
  /\ [][/\ (cache' # cache \/ metrics'.hits # metrics.hits
                           \/ metrics'.misses # metrics.misses) =>
             \E p \in lock : task'[p] # task[p]
        /\ \A p \in Tasks : (p \in lock /\ p \notin lock') => AsIfAlone(p)
        /\ \A p \in Tasks : (p \notin lock /\ p \in lock') =>
             (cache' = cache /\ metrics' = metrics)
       ]_vars

\* C18 witness: two gets on one key are in flight; the first holds the lock, has
\* found the entry expired and removed it, and is about to record its miss; the
\* second waits for the lock, and will find no entry.
C18_Witness ==
  \E p, q \in Tasks :
    /\ p # q
    /\ task[p].op = "get" /\ task[p].pc = "get_miss"
    /\ task[q].op = "get" /\ task[q].pc = "get_lock"
    /\ task[p].ck = task[q].ck
    /\ lock = {p}
    /\ task[p].ck \in Resident(snap.cache)
    /\ snap.cache.map[task[p].ck].expiry <= now
    /\ task[p].ck \notin Resident(cache)
    /\ metrics.misses = 0

\* C18, the example (not a claim of its own): when two gets that both started
\* before any get had been recorded have both returned nothing, two misses are
\* recorded.
C18_TwoMisses ==
  \A p, q \in Tasks :
    (/\ p # q
     /\ task[p].op = "get" /\ task[p].pc = "idle" /\ task[p].res = None /\ task[p].at = 0
     /\ task[q].op = "get" /\ task[q].pc = "idle" /\ task[q].res = None /\ task[q].at = 0)
      => metrics.misses = 2

\* the f64 r lies in [0, 100]
InPercentRange(r) == r[2] > 0 /\ r[1] >= 0 /\ r[1] <= 100 * r[2]

\* hit_rate of every pair of counter values two loads could give
AnyPairInRange ==
  \A hits \in 0..MaxConcOps, misses \in 0..MaxConcOps :
    InPercentRange(hit_rate([hits |-> hits, misses |-> misses]))

\* C19: every call of hit_rate() returns a value in [0, 100]: the calls made
\* while gets are running, which load hits and misses at different instants,
\* and, whatever the interleaving, every pair of values the two loads could give.
C19_HitRateRange ==
  /\ \A p \in Tasks :
       (task[p].op = "hit_rate" /\ task[p].pc = "idle") => InPercentRange(task[p].rate)
  /\ \A p \in Tasks :
       task[p].pc = "hit_rate_misses" =>
         \A misses \in 0..MaxConcOps :
           InPercentRange(hit_rate([hits |-> task[p].hits, misses |-> misses]))
  /\ AnyPairInRange

\* C19 witness: a call of hit_rate() loaded hits, a get running concurrently
\* then recorded a hit, and the call loaded misses afterwards: it returned 0
\* from the pair (0, 0) while the counters were (1, 0).
C19_Witness ==
  \E p \in Tasks :
    /\ task[p].op = "hit_rate" /\ task[p].pc = "idle"
    /\ task[p].torn
    /\ task[p].rate = <<0, 1>>
    /\ metrics.hits = 1 /\ metrics.misses = 0
    /\ \E q \in Tasks : task[q].op = "get" /\ task[q].pc # "idle"

\* the counters other than the two of the uncached path
OtherCounters(m) ==
  <<m.hits, m.misses, m.cached_latency_sum_micros, m.cached_count>>

\* C20: record_uncached_latency(d) adds exactly 1 to the uncached sample count
\* and the whole microseconds of d to the uncached latency sum, changes no other
\* counter and no stored entry, and does so with enabled true or false; and no
\* facade get, put or invalidate changes the uncached sum or count.
C20_UncachedLatency ==
  [][/\ CallStep("record_uncached_latency") =>
          LET d     == unwrap_or(last'.ttl, 0)
              added == metrics'.uncached_latency_sum_micros
                         - metrics.uncached_latency_sum_micros
          IN  /\ metrics'.uncached_count = metrics.uncached_count + 1
              /\ 2 * added <= d /\ d < 2 * (added + 1)
              /\ OtherCounters(metrics') = OtherCounters(metrics)
              /\ cache' = cache
     /\ (CallStep("get") \/ CallStep("put") \/ CallStep("invalidate")) =>
          /\ metrics'.uncached_count = metrics.uncached_count
          /\ metrics'.uncached_latency_sum_micros = metrics.uncached_latency_sum_micros
    ]_vars

\* C20 witness: on a disabled facade record_uncached_latency was called with 1.5
\* microseconds after a put and a get; one sample and 1 microsecond are recorded,
\* nothing else.
C20_Witness ==
  /\ ~config.enabled
  /\ last.op = "record_uncached_latency" /\ last.n = 3
  /\ last.ttl = Some(3)
  /\ metrics = [MetricsDefault EXCEPT !.uncached_count = 1,
                                      !.uncached_latency_sum_micros = 1]
  /\ cache = EmptyCache

====
